---- MODULE Spec2Model ----
(***************************************************************************)
(* The resilience layer of the todo service: withRetry (exponential        *)
(* backoff with jitter) wrapped around calls that go either straight to an *)
(* arbitrary fallible operation or through the shared database circuit     *)
(* breaker (dbBreaker.fire -> db.query).  Time is a millisecond clock that *)
(* advances from one pending timer to the next.  Above it, the resolvers,  *)
(* TodoService, its two tables and the in-process event bus, where each    *)
(* persistence call is taken by how it settles.                            *)
(***************************************************************************)
EXTENDS Integers, Sequences, FiniteSets, TLC

(* ------------------------------ bounds -------------------------------- *)
MaxCalls == 3
MaxRetriesBound == 4
MaxFailures == 5
MaxOps == 2
MaxHandlers == 1
MaxSubscribers == 2
MaxPairCalls == 1

(* ------------------------- program constants -------------------------- *)
timeout == 5000
(* a stricter threshold than the configured one                            *)
errorThresholdPercentageHigh == 50 + 25

errorThresholdPercentage == 50

(* a zero dropped from the reset timeout                                   *)
resetTimeoutShort == 3 * 1000

resetTimeout == 30000
rollingCountTimeout == 10000
rollingCountBuckets == 10
defaultMaxRetries == 3
defaultBaseDelay == 1000
jitterRange == 1000

bucketInterval == rollingCountTimeout \div rollingCountBuckets

Requests == {1}

(* the requests that can be in flight together through the one dbBreaker   *)
Concurrent == {1, 2}

(* error.code of a failed invocation; "EOTHER" stands for any code outside *)
(* the allow-list, "EOPENBREAKER" is the breaker's own rejection           *)
RetryableCodes == {"ECONNRESET", "ETIMEDOUT", "ECONNREFUSED"}
OperationCodes == RetryableCodes \cup {"EOTHER"}

(* Math.random() * 1000 lies in [0, 1000): both ends                       *)
Jitters == {0, jitterRange - 1}
BaseDelays == {0, defaultBaseDelay}
MaxRetriesValues == 0..MaxRetriesBound
(* leading failures of db.query: none, one, more than any retry sequence   *)
DbFailures == {0, 1, MaxFailures}
(* error.code of a failed db.query: one on the allow-list, one outside it  *)
DbCodes == {"ECONNREFUSED", "EOTHER"}

RECURSIVE Pow2(_)
Pow2(n) == IF n <= 0 THEN 1 ELSE 2 * Pow2(n - 1)

Min(a, b) == IF a < b THEN a ELSE b

(* phase, window, pendingTrial: the breaker.  rotateIn, resetIn: ms until  *)
(* the window's next bucket and until the open breaker's reset timer.      *)
(* openFor: ms the breaker has been open.  req: the withRetry call of each *)
(* request.                                                                *)
VARIABLES phase, window, pendingTrial, rotateIn, resetIn, openFor, req

(* todos, todoTags: the two tables behind db.query.  handlers:             *)
(* eventBus.handlers.  calls: the resolver calls made so far, which is     *)
(* also the time that new Date() reads: time is counted in calls.  api:    *)
(* the resolver call of each caller.                                       *)
VARIABLES todos, todoTags, handlers, calls, api

apiVars == <<todos, todoTags, handlers, calls, api>>

breakerVars == <<phase, window, pendingTrial, rotateIn, resetIn, openFor, req>>

vars == <<phase, window, pendingTrial, rotateIn, resetIn, openFor, req,
          todos, todoTags, handlers, calls, api>>

(* ------------------------- rolling window ----------------------------- *)
EmptyBucket == [failures |-> 0, successes |-> 0]
EmptyWindow == [i \in 1..rollingCountBuckets |-> EmptyBucket]

RECURSIVE SumFailures(_, _)
SumFailures(w, i) == IF i = 0 THEN 0 ELSE w[i].failures + SumFailures(w, i - 1)

RECURSIVE SumSuccesses(_, _)
SumSuccesses(w, i) == IF i = 0 THEN 0 ELSE w[i].successes + SumSuccesses(w, i - 1)

WindowFailures(w) == SumFailures(w, Len(w))
WindowTotal(w) == SumFailures(w, Len(w)) + SumSuccesses(w, Len(w))

(* failure percentage of the window >= errorThresholdPercentage           *)
ThresholdReached(w) ==
    /\ WindowTotal(w) > 0
    /\ WindowFailures(w) * 100 >= errorThresholdPercentage * WindowTotal(w)

(* an outcome goes into the newest bucket                                  *)
RecordOutcome(w, ok) ==
    [w EXCEPT ![Len(w)] =
        IF ok THEN [@ EXCEPT !.successes = @ + 1]
              ELSE [@ EXCEPT !.failures = @ + 1]]

(* the oldest bucket leaves the window, an empty one becomes the newest    *)
RotateWindow(w) == Append(Tail(w), EmptyBucket)

(* ----------------------------- withRetry ------------------------------ *)
NoError == [code |-> "none", at |-> 0]
MaxRetriesReached == [code |-> "MAX_RETRIES_REACHED", at |-> 0]

(* off by one: the last attempt is taken to be the one after the limit     *)
isLastAttemptLate(attempt, maxRetries) == attempt = maxRetries

isLastAttempt(attempt, maxRetries) == attempt = maxRetries - 1

(* the allow-list without the timeout code                                 *)
isRetryableNoTimeout(code) ==
    \/ code = "ECONNRESET"
    \/ code = "ECONNREFUSED"

(* every error that carries a code is retried                              *)
isRetryableAnyCode(code) == code # "none"

isRetryable(code) ==
    \/ code = "ECONNRESET"
    \/ code = "ETIMEDOUT"
    \/ code = "ECONNREFUSED"

(* linear instead of exponential backoff                                   *)
delayLinear(baseDelay, attempt) == baseDelay * (attempt + 1)

delay(baseDelay, attempt) == baseDelay * Pow2(attempt)

(* pc: idle | inflight | sleep | done.        fnCalls: invocations of fn;  *)
(* opCalls: invocations of the underlying operation; raised: the error of  *)
(* the latest failed invocation; recorded: failures this call put into the *)
(* breaker's window, timedOut: those that were timeouts; sleeps, lastDelay,*)
(* slept: the backoffs taken, the latest one's setTimeout argument and the *)
(* ms it has lasted; timer: ms left of the backoff or of the call timeout. *)
IdleRequest ==
    [pc |-> "idle", kind |-> "plain", maxRetries |-> 0, baseDelay |-> 0,
     failing |-> 0, attempt |-> 0, fnCalls |-> 0, opCalls |-> 0,
     recorded |-> 0, onlyRetryable |-> TRUE, raised |-> NoError,
     sleeps |-> 0, lastDelay |-> 0, slept |-> 0, timedOut |-> 0,
     timer |-> 0, trial |-> FALSE,
     outcome |-> "none", error |-> NoError,
     phaseAtStart |-> "closed", emptyAtStart |-> FALSE, callsLeft |-> MaxCalls]

(* the for-loop's condition with the counter at `attempt`: the body runs,  *)
(* or the loop ends and 'Max retries reached' is thrown                    *)
LoopHead(rq, attempt) ==
    IF attempt < rq.maxRetries
    THEN [rq EXCEPT !.pc = "try", !.attempt = attempt]
    ELSE [rq EXCEPT !.pc = "done", !.attempt = attempt, !.outcome = "thrown",
                    !.error = MaxRetriesReached]

(* `return await fn()` resolved                                            *)
Returned(rq) == [rq EXCEPT !.pc = "done", !.outcome = "returned", !.timer = 0]

(* invocation number rq.fnCalls of fn failed with error.code = code        *)
Raise(rq, code) ==
    [rq EXCEPT !.raised = [code |-> code, at |-> rq.fnCalls],
               !.onlyRetryable = @ /\ code \in RetryableCodes]

(* the catch block, entered with the error rq.raised                       *)
Caught(rq, jitter) ==
    IF isLastAttempt(rq.attempt, rq.maxRetries) \/ ~isRetryable(rq.raised.code)
    THEN [rq EXCEPT !.pc = "done", !.outcome = "thrown", !.error = rq.raised,
                    !.timer = 0]
    ELSE [rq EXCEPT !.pc = "sleep", !.sleeps = @ + 1, !.slept = 0,
                    !.lastDelay = delay(rq.baseDelay, rq.attempt) + jitter,
                    !.timer = delay(rq.baseDelay, rq.attempt) + jitter]

(* --------------------------- circuit breaker -------------------------- *)
(* fire() lets the call through: closed, or half-open with the trial free  *)
CallAllowed == phase = "closed" \/ (phase = "halfOpen" /\ pendingTrial)

(* the breaker opens and its reset timer starts                            *)
Open(w) ==
    /\ phase' = "open"
    /\ window' = w
    /\ resetIn' = resetTimeout
    /\ openFor' = 0

(* the threshold is evaluated on the window as it was before the outcome   *)
(* was recorded                                                            *)
BreakerSettledStale(ok, isTrial) ==
    LET w == RecordOutcome(window, ok)
    IN  IF phase = "halfOpen" /\ isTrial
        THEN IF ok
             THEN /\ phase' = "closed"
                  /\ window' = EmptyWindow
                  /\ UNCHANGED <<resetIn, openFor>>
             ELSE Open(w)
        ELSE IF phase = "closed" /\ ThresholdReached(window)
             THEN Open(w)
             ELSE /\ window' = w
                  /\ UNCHANGED <<phase, resetIn, openFor>>

(* the breaker after the wrapped operation of a call settled               *)
BreakerSettled(ok, isTrial) ==
    LET w == RecordOutcome(window, ok)
    IN  IF phase = "halfOpen" /\ isTrial
        THEN IF ok
             THEN /\ phase' = "closed"
                  /\ window' = EmptyWindow
                  /\ UNCHANGED <<resetIn, openFor>>
             ELSE Open(w)
        ELSE IF phase = "closed" /\ ThresholdReached(w)
             THEN Open(w)
             ELSE /\ window' = w
                  /\ UNCHANGED <<phase, resetIn, openFor>>

(* ------------------------- api layer: data ---------------------------- *)
(* a string is modelled by its length; Absent is an undefined property     *)
Absent == 0 - 1

Callers == {1, 2}

(* the ids a call may name: the row the table may hold at the start and    *)
(* the rows that earlier calls may have created                            *)
TodoIds == 0..(MaxOps - 1)

TodoStatuses == {"PENDING", "IN_PROGRESS", "COMPLETED", "ARCHIVED"}

(* dueDate values: one that matches /^\d{4}-\d{2}-\d{2}$/, one that does not *)
DueDateOk == "2025-11-14"
DueDateBad == "14.11.2025"

Input(title, description, status, dueDate) ==
    [title |-> title, description |-> description, status |-> status,
     dueDate |-> dueDate]

(* the input argument of createTodo: the shortest and the longest valid    *)
(* one, titles that are too short, too long or missing, and a valid title  *)
(* next to invalid fields                                                  *)
CreateInputs ==
    {Input(3, Absent, "absent", "absent"),
     Input(200, 1000, "absent", DueDateOk),
     Input(2, Absent, "absent", "absent"),
     Input(0, 1001, "absent", DueDateBad),
     Input(201, Absent, "absent", "absent"),
     Input(Absent, Absent, "absent", "absent"),
     Input(3, 1001, "absent", DueDateBad)}

(* the input argument of updateTodo: nothing to change, a status, a title, *)
(* and invalid ones, the last with every field invalid                     *)
UpdateInputs ==
    {Input(Absent, Absent, "absent", "absent"),
     Input(Absent, Absent, "COMPLETED", "absent"),
     Input(200, Absent, "absent", "absent"),
     Input(2, Absent, "absent", "absent"),
     Input(Absent, Absent, "DONE", "absent"),
     Input(201, 1001, "DONE", DueDateBad)}

Issue(field, message) == [field |-> field, message |-> message]

(* the minimum title length taken one too low                              *)
TitleIssuesMin2(schema, t) ==
    IF t = Absent
    THEN IF schema = "CreateTodoInputSchema"
         THEN <<Issue("title", "Required")>> ELSE <<>>
    ELSE IF t < 2
         THEN <<Issue("title", "Title must be at least 3 characters")>>
         ELSE IF t > 200
              THEN <<Issue("title", "Title must not exceed 200 characters")>>
              ELSE <<>>

(* z.string().min(3).max(200), optional in UpdateTodoInputSchema           *)
TitleIssues(schema, t) ==
    IF t = Absent
    THEN IF schema = "CreateTodoInputSchema"
         THEN <<Issue("title", "Required")>> ELSE <<>>
    ELSE IF t < 3
         THEN <<Issue("title", "Title must be at least 3 characters")>>
         ELSE IF t > 200
              THEN <<Issue("title", "Title must not exceed 200 characters")>>
              ELSE <<>>

DescriptionIssues(d) ==
    IF d # Absent /\ d > 1000
    THEN <<Issue("description", "Description must not exceed 1000 characters")>>
    ELSE <<>>

(* z.enum([...]).optional(), a key of UpdateTodoInputSchema only           *)
StatusIssues(schema, st) ==
    IF schema = "UpdateTodoInputSchema" /\ st # "absent" /\ st \notin TodoStatuses
    THEN <<Issue("status",
             "Status must be one of: PENDING, IN_PROGRESS, COMPLETED, ARCHIVED")>>
    ELSE <<>>

DueDateIssues(u) ==
    IF u # "absent" /\ u # DueDateOk
    THEN <<Issue("dueDate", "Must be YYYY-MM-DD format")>>
    ELSE <<>>

(* result.error.issues of schema.safeParse(data), in the schema's key order *)
Issues(schema, data) ==
    TitleIssues(schema, data.title) \o DescriptionIssues(data.description)
    \o StatusIssues(schema, data.status) \o DueDateIssues(data.dueDate)

(* what a resolver hands back: channel is "returned" or "thrown", body the *)
(* properties of the returned object or of the thrown error                *)
NoResult == [channel |-> "none", typename |-> "none", body |-> <<>>]

ValidationError(issues) ==
    [channel |-> "returned", typename |-> "ValidationError",
     body |-> [k \in {"message", "code", "fields"} |->
                 CASE k = "message" -> "Input validation failed"
                   [] k = "code" -> "VALIDATION_ERROR"
                   [] k = "fields" -> issues]]

(* validateInput: the ValidationError object, or the parsed data           *)
validateInput(schema, data) ==
    IF Issues(schema, data) # <<>>
    THEN ValidationError(Issues(schema, data))
    ELSE [channel |-> "data", typename |-> "none", body |-> data]

(* the not-found object built without the requested id                    *)
TodoNotFoundErrorNoId(id) ==
    [channel |-> "returned", typename |-> "TodoNotFoundError",
     body |-> [k \in {"message", "code", "todoId"} |->
                 CASE k = "message" -> "Todo not found"
                   [] k = "code" -> "TODO_NOT_FOUND"
                   [] k = "todoId" -> Absent]]

TodoNotFoundError(id) ==
    [channel |-> "returned", typename |-> "TodoNotFoundError",
     body |-> [k \in {"message", "code", "todoId"} |->
                 CASE k = "message" -> "Todo not found"
                   [] k = "code" -> "TODO_NOT_FOUND"
                   [] k = "todoId" -> id]]

CreateTodoSuccess(todo) ==
    [channel |-> "returned", typename |-> "CreateTodoSuccess",
     body |-> [k \in {"todo"} |-> todo]]

(* update, delete and complete return the todo itself                      *)
TodoResult(todo) ==
    [channel |-> "returned", typename |-> "Todo", body |-> todo]

AddTagSuccess(tag) ==
    [channel |-> "returned", typename |-> "AddTagSuccess",
     body |-> [k \in {"tag"} |-> tag]]

(* throw new GraphQLError(message, { extensions: { code, originalError } }) *)
GraphQLError(message, error) ==
    [channel |-> "thrown", typename |-> "GraphQLError",
     body |-> [k \in {"message", "extensions.code",
                      "extensions.originalError"} |->
                 CASE k = "message" -> message
                   [] k = "extensions.code" -> "INTERNAL_ERROR"
                   [] k = "extensions.originalError" -> error.message]]

(* an error that leaves a resolver as it was raised                        *)
Rethrown(error) ==
    [channel |-> "thrown", typename |-> "Error",
     body |-> [k \in {"message", "code"} |->
                 CASE k = "message" -> error.message
                   [] k = "code" -> error.code]]

(* ---------------------- api layer: persistence ------------------------ *)
(* what withRetry(() => dbBreaker.fire(...)) can throw: here the last      *)
(* retryable failure of the connection, with either of two texts           *)
DbErrors ==
    {[code |-> "ECONNREFUSED", message |-> "connect ECONNREFUSED 10.0.0.5:5432"],
     [code |-> "ECONNREFUSED", message |-> "connect ECONNREFUSED 10.0.0.6:5432"]}

NoDbError == [code |-> "none", message |-> "none"]

(* reading a property of result.rows[0] when no row came back              *)
TypeErrorNoRow ==
    [code |-> "undefined",
     message |-> "Cannot read properties of undefined (reading 'id')"]

(* reading error.message of a handler's rejection that is undefined        *)
TypeErrorNoError ==
    [code |-> "undefined",
     message |-> "Cannot read properties of undefined (reading 'message')"]

(* SELECT * FROM todos WHERE id = $1: result.rows                          *)
SelectById(id) == IF id \in DOMAIN todos THEN <<todos[id]>> ELSE <<>>

(* INSERT INTO todos (...) VALUES ($1, ..., 'PENDING', ..., now, now)      *)
InsertedRow(id, input, now) ==
    [id |-> id, title |-> input.title, description |-> input.description,
     status |-> "PENDING", dueDate |-> input.dueDate,
     createdAt |-> now, updatedAt |-> now, completedAt |-> Absent]

COALESCE(v, null, old) == IF v = null THEN old ELSE v

(* UPDATE todos SET title = COALESCE($2, title), ..., updatedAt = $6       *)
UpdatedRow(row, input, now) ==
    [row EXCEPT !.title = COALESCE(input.title, Absent, @),
                !.description = COALESCE(input.description, Absent, @),
                !.status = COALESCE(input.status, "absent", @),
                !.dueDate = COALESCE(input.dueDate, "absent", @),
                !.updatedAt = now]

(* UPDATE todos SET status = 'COMPLETED', completedAt = $2, updatedAt = $2 *)
CompletedRow(row, now) ==
    [row EXCEPT !.status = "COMPLETED", !.completedAt = now, !.updatedAt = now]

(* the table with `row` stored under its id, and with the row of id gone   *)
WithRow(t, row) ==
    [i \in DOMAIN t \cup {row.id} |-> IF i = row.id THEN row ELSE t[i]]

WithoutRow(t, id) == [i \in DOMAIN t \ {id} |-> t[i]]

mapRow(row) ==
    [id |-> row.id, title |-> row.title, description |-> row.description,
     status |-> row.status, dueDate |-> row.dueDate,
     createdAt |-> row.createdAt, updatedAt |-> row.updatedAt,
     completedAt |-> row.completedAt, notes |-> row.description]

(* INSERT INTO todoTags (id, todoId, tagName, tagColor, createdAt)         *)
TagRow(tagId, todoId, now) ==
    [id |-> tagId, todoId |-> todoId, tagName |-> "urgent",
     tagColor |-> "#ff0000", createdAt |-> now]

(* the tag object addTag builds from result.rows[0]                        *)
TagOf(row) ==
    [id |-> row.id, tagName |-> row.tagName, tagColor |-> row.tagColor,
     createdAt |-> row.createdAt]

(* ------------------------ api layer: event bus ------------------------- *)
EventTypes ==
    {"todos.todo.created.v1", "todos.todo.updated.v1",
     "todos.todo.completed.v1", "todos.todo.deleted.v1"}

(* how `await handler(event)` can settle: the handler returns or its       *)
(* promise resolves, it throws or rejects with an Error, it throws or      *)
(* rejects with undefined                                                  *)
HandlerOutcomes == {"resolves", "rejects", "rejectsUndefined"}

(* this.handlers.get(type) || []                                           *)
HandlersOf(type) == handlers[type]

RECURSIVE SumLen(_, _)
SumLen(f, S) ==
    IF S = {} THEN 0
    ELSE LET x == CHOOSE y \in S : TRUE
         IN  Len(f[x]) + SumLen(f, S \ {x})

(* ----------------------- api layer: resolver call ---------------------- *)
NoInput ==
    [title |-> Absent, description |-> Absent, status |-> "absent",
     dueDate |-> "absent"]

(* pc: idle | find | write | publish | done.  uuid: what uuidv4() gives    *)
(* this call; found: the rows findById got; now: the time stamped by the   *)
(* call; todo: the entity handed to the publisher; eventType, hidx: the    *)
(* publish loop's event and the handler it awaits; atCall: the handlers of *)
(* that event's type when publish was called; invoked: the handlers the    *)
(* loop has called, in the order of the calls.                             *)
(* reads, writes: persistence calls issued for findById and for the        *)
(* mutation; stored: the rows the mutation wrote; notified: the events     *)
(* published; dbError: the persistence failure that reached the service;   *)
(* handlerErrors: handlers that threw or rejected.                         *)
IdleCall ==
    [pc |-> "idle", name |-> "none", id |-> 0, input |-> NoInput,
     correlationId |-> 0, uuid |-> 0, found |-> <<>>, now |-> 0, todo |-> <<>>,
     eventType |-> "none", hidx |-> 0, atCall |-> <<>>, invoked |-> <<>>,
     result |-> NoResult,
     reads |-> 0, writes |-> 0, stored |-> <<>>, notified |-> <<>>,
     dbError |-> NoDbError, handlerErrors |-> 0]

(* ------------------------------ actions ------------------------------- *)
InitResilience ==
    /\ phase = "closed"
    /\ window = EmptyWindow
    /\ pendingTrial = FALSE
    /\ rotateIn = bucketInterval
    /\ resetIn = 0
    /\ openFor = 0
    /\ req = [r \in Concurrent |-> IdleRequest]

(* a row that an earlier run of the service created and left pending       *)
EarlierRow == InsertedRow(0, Input(3, Absent, "absent", "absent"), 0)

(* the process has started: the table is empty or holds the earlier row,   *)
(* nothing is subscribed, no resolver has been called                      *)
InitService ==
    /\ todos \in {<<>>, WithRow(<<>>, EarlierRow)}
    /\ todoTags = {}
    /\ handlers = [t \in EventTypes |-> <<>>]
    /\ calls = 0
    /\ api = [c \in Callers |-> IdleCall]

Init ==
    /\ InitResilience
    /\ InitService
    /\ todos = <<>>

InitApi ==
    /\ InitResilience
    /\ InitService

WillFail(rq) == rq.opCalls <= rq.failing

(* fn() on an arbitrary operation: it fails or resolves                    *)
TryPlain(r, rq) ==
    /\ LET q == [rq EXCEPT !.fnCalls = @ + 1, !.opCalls = @ + 1]
       IN  IF WillFail(q)
           THEN \E c \in OperationCodes, j \in Jitters :
                    req' = [req EXCEPT ![r] = Caught(Raise(q, c), j)]
           ELSE req' = [req EXCEPT ![r] = Returned(q)]
    /\ UNCHANGED pendingTrial

(* fn() calls db.query itself instead of going through dbBreaker.fire      *)
FireDirect(r, rq) ==
    /\ req' = [req EXCEPT ![r] =
          [rq EXCEPT !.pc = "inflight", !.fnCalls = @ + 1, !.opCalls = @ + 1,
                     !.timer = timeout, !.trial = FALSE]]
    /\ UNCHANGED pendingTrial

(* fn() = dbBreaker.fire(): rejected at once, or db.query is invoked       *)
Fire(r, rq) ==
    LET q == [rq EXCEPT !.fnCalls = @ + 1]
    IN  IF CallAllowed
        THEN /\ req' = [req EXCEPT ![r] =
                   [q EXCEPT !.pc = "inflight", !.opCalls = @ + 1,
                             !.timer = timeout,
                             !.trial = (phase = "halfOpen")]]
             /\ pendingTrial' = FALSE
        ELSE /\ \E j \in Jitters :
                   req' = [req EXCEPT ![r] =
                              Caught(Raise(q, "EOPENBREAKER"), j)]
             /\ UNCHANGED pendingTrial

(* the loop is entered with the counter at `attempt`: fn is called in the  *)
(* same turn, or 'Max retries reached' is thrown                           *)
Iterate(r, rq, attempt) ==
    LET h == LoopHead(rq, attempt)
    IN  /\ IF h.pc = "done"
           THEN req' = [req EXCEPT ![r] = h] /\ UNCHANGED pendingTrial
           ELSE IF h.kind = "plain" THEN TryPlain(r, h) ELSE Fire(r, h)
        /\ UNCHANGED <<phase, window, rotateIn, resetIn, openFor>>
        /\ UNCHANGED apiVars

(* withRetry(fn, maxRetries, baseDelay) is called; the operation behind fn *)
(* fails on its first `failing` invocations                                *)
Begin(r, kind, maxRetries, baseDelay, failing) ==
    /\ req[r].pc \in {"idle", "done"}
    /\ req[r].callsLeft > 0
    /\ Iterate(r, [IdleRequest EXCEPT
                      !.kind = kind, !.maxRetries = maxRetries,
                      !.baseDelay = baseDelay, !.failing = failing,
                      !.phaseAtStart = phase,
                      !.emptyAtStart = (WindowTotal(window) = 0),
                      !.callsLeft = req[r].callsLeft - 1], 0)

(* withRetry around an arbitrary operation                                 *)
StartPlain(r) ==
    \E m \in MaxRetriesValues, b \in BaseDelays, f \in 0..MaxFailures :
        Begin(r, "plain", m, b, f)

(* TodoService: withRetry(() => dbBreaker.fire(query, params))             *)
StartDb(r) ==
    \E f \in DbFailures :
        Begin(r, "db", defaultMaxRetries, defaultBaseDelay, f)

(* db.query settles before the breaker's timeout                           *)
DbSettle(r) ==
    /\ req[r].pc = "inflight"
    /\ req[r].timer > 0
    /\ IF WillFail(req[r])
       THEN /\ \E c \in DbCodes, j \in Jitters :
                  req' = [req EXCEPT ![r] =
                      Caught(Raise([req[r] EXCEPT !.recorded = @ + 1], c), j)]
            /\ BreakerSettled(FALSE, req[r].trial)
       ELSE /\ req' = [req EXCEPT ![r] = Returned(req[r])]
            /\ BreakerSettled(TRUE, req[r].trial)
    /\ UNCHANGED <<pendingTrial, rotateIn>>
    /\ UNCHANGED apiVars

(* db.query has not settled after `timeout` ms: the call fails ETIMEDOUT   *)
DbTimeout(r) ==
    /\ req[r].pc = "inflight"
    /\ req[r].timer = 0
    /\ \E j \in Jitters :
          req' = [req EXCEPT ![r] =
              Caught(Raise([req[r] EXCEPT !.recorded = @ + 1,
                                          !.timedOut = @ + 1], "ETIMEDOUT"), j)]
    /\ BreakerSettled(FALSE, req[r].trial)
    /\ UNCHANGED <<pendingTrial, rotateIn>>
    /\ UNCHANGED apiVars

(* the backoff timer fires: attempt++, the loop condition, the next fn()   *)
Wake(r) ==
    /\ req[r].pc = "sleep"
    /\ req[r].timer = 0
    /\ Iterate(r, req[r], req[r].attempt + 1)

(* resetTimeout after opening: half-open, one trial call allowed           *)
HalfOpen ==
    /\ phase = "open"
    /\ resetIn = 0
    /\ phase' = "halfOpen"
    /\ pendingTrial' = TRUE
    /\ UNCHANGED <<window, rotateIn, resetIn, openFor, req>>
    /\ UNCHANGED apiVars

(* every bucketInterval the window moves on by one bucket                  *)
Rotate ==
    /\ rotateIn = 0
    /\ window' = RotateWindow(window)
    /\ rotateIn' = bucketInterval
    /\ UNCHANGED <<phase, pendingTrial, resetIn, openFor, req>>
    /\ UNCHANGED apiVars

Waiting == {r \in Concurrent : req[r].pc \in {"sleep", "inflight"}}

Timers ==
    {rotateIn} \cup {req[r].timer : r \in Waiting}
    \cup (IF phase = "open" THEN {resetIn} ELSE {})

Earliest(S) == CHOOSE d \in S : \A e \in S : d <= e

(* no timer is due: time passes until the next one is                      *)
Advance ==
    LET d == Earliest(Timers)
    IN  /\ d > 0
        /\ \A r \in Concurrent :
              (req[r].pc = "inflight" /\ ~WillFail(req[r])) => d < req[r].timer
        /\ rotateIn' = rotateIn - d
        /\ resetIn' = IF phase = "open" THEN resetIn - d ELSE resetIn
        /\ openFor' = IF phase = "open" THEN openFor + d ELSE openFor
        /\ req' = [r \in Concurrent |->
                     IF r \in Waiting
                     THEN [req[r] EXCEPT !.timer = @ - d,
                              !.slept = IF req[r].pc = "sleep" THEN @ + d ELSE @]
                     ELSE req[r]]
        /\ UNCHANGED <<phase, window, pendingTrial>>
        /\ UNCHANGED apiVars

(* ------------------------ api layer: resolvers ------------------------- *)
FailureMessage(name) ==
    CASE name = "createTodo" -> "Failed to create todo"
      [] name = "updateTodo" -> "Failed to update todo"
      [] name = "deleteTodo" -> "Failed to delete todo"
      [] name = "completeTodo" -> "Failed to complete todo"

(* the service call rejected with `error`: the resolver's catch block, or, *)
(* in addTag, which has none, the error as it is                           *)
ResolverCatch(a, error) ==
    [a EXCEPT !.pc = "done",
              !.result = IF a.name = "addTag"
                         THEN Rethrown(error)
                         ELSE GraphQLError(FailureMessage(a.name), error)]

(* the service call resolved with a.todo                                   *)
ResolverReturn(a) ==
    [a EXCEPT !.pc = "done",
              !.result = CASE a.name = "createTodo" -> CreateTodoSuccess(a.todo)
                           [] a.name = "addTag" -> AddTagSuccess(a.todo)
                           [] OTHER -> TodoResult(a.todo)]

(* EventBus.publish's for loop at handler number i: the loop is over and  *)
(* the call returns, or handler i is called and awaited                    *)
HandlerLoop(a, i) ==
    IF i > Len(HandlersOf(a.eventType))
    THEN ResolverReturn([a EXCEPT !.hidx = i])
    ELSE [a EXCEPT !.pc = "publish", !.hidx = i,
                   !.invoked = Append(@, HandlersOf(a.eventType)[i])]

(* await publishTodoX(todo): the event is built and eventBus.publish runs  *)
publish(a, type, todo) ==
    HandlerLoop([a EXCEPT !.eventType = type, !.todo = todo,
                          !.atCall = HandlersOf(type),
                          !.notified = Append(@, type)], 1)

(* the x-correlation-id the server puts into the call's context            *)
CorrelationId(c) == c

CanCall(c) == api[c].pc \in {"idle", "done"} /\ calls < MaxOps

(* a resolver is called; uuidv4() will give this call a value of its own   *)
Enter(c, name, id, input) ==
    [IdleCall EXCEPT !.name = name, !.id = id, !.input = input,
                     !.correlationId = CorrelationId(c),
                     !.uuid = calls + 1]

(* todoService.findById(id) is called: its persistence call is issued      *)
findById(a) == [a EXCEPT !.pc = "find", !.reads = @ + 1]

createTodo(c, input) ==
    /\ CanCall(c)
    /\ LET a == Enter(c, "createTodo", 0, input)
           validated == validateInput("CreateTodoInputSchema", input)
       IN  api' = [api EXCEPT ![c] =
               IF validated.typename = "ValidationError"
               THEN [a EXCEPT !.pc = "done", !.result = validated]
               ELSE [a EXCEPT !.pc = "write", !.id = a.uuid,
                              !.input = validated.body, !.now = calls + 1,
                              !.writes = @ + 1]]
    /\ calls' = calls + 1
    /\ UNCHANGED <<todos, todoTags, handlers>>
    /\ UNCHANGED breakerVars

(* the resolver without its validation step                                *)
updateTodoUnvalidated(c, id, input) ==
    /\ CanCall(c)
    /\ api' = [api EXCEPT ![c] = findById(Enter(c, "updateTodo", id, input))]
    /\ calls' = calls + 1
    /\ UNCHANGED <<todos, todoTags, handlers>>
    /\ UNCHANGED breakerVars

updateTodo(c, id, input) ==
    /\ CanCall(c)
    /\ LET a == Enter(c, "updateTodo", id, input)
           validated == validateInput("UpdateTodoInputSchema", input)
       IN  api' = [api EXCEPT ![c] =
               IF validated.typename = "ValidationError"
               THEN [a EXCEPT !.pc = "done", !.result = validated]
               ELSE findById([a EXCEPT !.input = validated.body])]
    /\ calls' = calls + 1
    /\ UNCHANGED <<todos, todoTags, handlers>>
    /\ UNCHANGED breakerVars

(* deleteTodo, completeTodo and addTag begin with findById(id)             *)
FindFirst(c, name, id) ==
    /\ CanCall(c)
    /\ api' = [api EXCEPT ![c] = findById(Enter(c, name, id, NoInput))]
    /\ calls' = calls + 1
    /\ UNCHANGED <<todos, todoTags, handlers>>
    /\ UNCHANGED breakerVars

deleteTodo(c, id) == FindFirst(c, "deleteTodo", id)

completeTodo(c, id) == FindFirst(c, "completeTodo", id)

addTag(c, id) == FindFirst(c, "addTag", id)

(* the persistence call of findById settled and the caller goes on: the   *)
(* call threw; or no row came back and null goes up to the resolver; or    *)
(* the row is there and the mutation's persistence call is issued          *)
FindSettled(c) ==
    LET a == api[c]
        rows == SelectById(a.id)
    IN  /\ a.pc = "find"
        /\ \/ \E e \in DbErrors :
                 api' = [api EXCEPT ![c] =
                            ResolverCatch([a EXCEPT !.dbError = e], e)]
           \/ api' = [api EXCEPT ![c] =
                 IF rows = <<>>
                 THEN [a EXCEPT !.pc = "done",
                                !.result = TodoNotFoundError(a.id)]
                 ELSE [a EXCEPT !.pc = "write", !.found = rows,
                                !.now = IF a.name = "deleteTodo" THEN 0 ELSE calls,
                                !.writes = @ + 1]]
        /\ UNCHANGED <<todos, todoTags, handlers, calls>>
        /\ UNCHANGED breakerVars

(* result.rows of the mutation's statement, run on the table as it is now  *)
WrittenRows(a) ==
    CASE a.name = "createTodo" -> <<InsertedRow(a.id, a.input, a.now)>>
      [] a.name = "updateTodo" ->
            IF a.id \in DOMAIN todos
            THEN <<UpdatedRow(todos[a.id], a.input, a.now)>> ELSE <<>>
      [] a.name = "completeTodo" ->
            IF a.id \in DOMAIN todos
            THEN <<CompletedRow(todos[a.id], a.now)>> ELSE <<>>
      [] a.name = "deleteTodo" -> <<>>
      [] a.name = "addTag" -> <<TagRow(a.uuid, a.id, a.now)>>

(* the service method after its statement returned `rows`                  *)
AfterWrite(a, rows) ==
    LET b == [a EXCEPT !.stored = rows]
    IN  CASE a.name = "createTodo" ->
               publish(b, "todos.todo.created.v1", mapRow(rows[1]))
          [] a.name = "updateTodo" ->
               IF rows = <<>> THEN ResolverCatch(b, TypeErrorNoRow)
               ELSE publish(b, "todos.todo.updated.v1", mapRow(rows[1]))
          [] a.name = "completeTodo" ->
               IF rows = <<>> THEN ResolverCatch(b, TypeErrorNoRow)
               ELSE publish(b, "todos.todo.completed.v1", mapRow(rows[1]))
          [] a.name = "deleteTodo" ->
               publish(b, "todos.todo.deleted.v1", mapRow(a.found[1]))
          [] a.name = "addTag" ->
               ResolverReturn([b EXCEPT !.todo = TagOf(rows[1])])

(* the persistence call of the mutation settled: it threw, or the          *)
(* statement ran on the table and the service method goes on               *)
WriteSettled(c) ==
    LET a == api[c]
        rows == WrittenRows(a)
    IN  /\ a.pc = "write"
        /\ \/ /\ \E e \in DbErrors :
                    api' = [api EXCEPT ![c] =
                               ResolverCatch([a EXCEPT !.dbError = e], e)]
              /\ UNCHANGED <<todos, todoTags>>
           \/ /\ api' = [api EXCEPT ![c] = AfterWrite(a, rows)]
              /\ todos' = CASE a.name = "deleteTodo" -> WithoutRow(todos, a.id)
                            [] a.name = "addTag" -> todos
                            [] OTHER -> IF rows = <<>> THEN todos
                                        ELSE WithRow(todos, rows[1])
              /\ todoTags' = IF a.name = "addTag"
                             THEN todoTags \cup {rows[1]} ELSE todoTags
        /\ UNCHANGED <<handlers, calls>>
        /\ UNCHANGED breakerVars

(* `await handler(event)` settled as `outcome`: the loop moves on, through *)
(* the catch block after a failure, where error.message is read            *)
AfterHandler(a, outcome) ==
    CASE outcome = "resolves" -> HandlerLoop(a, a.hidx + 1)
      [] outcome = "rejects" ->
            HandlerLoop([a EXCEPT !.handlerErrors = @ + 1], a.hidx + 1)
      [] outcome = "rejectsUndefined" ->
            ResolverCatch([a EXCEPT !.handlerErrors = @ + 1], TypeErrorNoError)

(* the handler that publish is awaiting settles                            *)
HandlerSettled(c) ==
    /\ api[c].pc = "publish"
    /\ \E outcome \in HandlerOutcomes :
          api' = [api EXCEPT ![c] = AfterHandler(api[c], outcome)]
    /\ UNCHANGED <<todos, todoTags, handlers, calls>>
    /\ UNCHANGED breakerVars

(* eventBus.subscribe(eventType, handler): handlers are told apart by the  *)
(* order in which they subscribed                                          *)
subscribeWithin(eventType, limit) ==
    /\ SumLen(handlers, EventTypes) < limit
    /\ handlers' = [handlers EXCEPT ![eventType] =
                       Append(@, SumLen(handlers, EventTypes) + 1)]
    /\ UNCHANGED <<todos, todoTags, calls, api>>
    /\ UNCHANGED breakerVars

subscribe(eventType) == subscribeWithin(eventType, MaxHandlers)

(* withRetry around arbitrary operations, no breaker involved              *)
NextRetry ==
    \/ \E r \in Requests : StartPlain(r)
    \/ \E r \in Requests : Wake(r)
    \/ Rotate
    \/ Advance

SpecRetry == Init /\ [][NextRetry]_vars

(* time passes, and the event loop runs every timer that is due; nothing   *)
(* obliges a caller to call                                                *)
FairSpecRetry ==
    /\ SpecRetry
    /\ WF_vars(\E r \in Requests : Wake(r))
    /\ WF_vars(Rotate)
    /\ WF_vars(Advance)

(* the service's persistence calls: withRetry around dbBreaker.fire        *)
Next ==
    \/ \E r \in Requests : StartDb(r)
    \/ \E r \in Requests : DbSettle(r)
    \/ \E r \in Requests : DbTimeout(r)
    \/ \E r \in Requests : Wake(r)
    \/ HalfOpen
    \/ Rotate
    \/ Advance

Spec == Init /\ [][Next]_vars

(* the event loop keeps running: a due timer fires, time passes            *)
FairSpec == Spec /\ WF_vars(Next)

(* two requests at once through the shared breaker, the first making up   *)
(* to MaxPairCalls persistence calls and the second one call, with a       *)
(* db.query that always fails or never                                     *)
InitBreakerPair ==
    /\ phase = "closed"
    /\ window = EmptyWindow
    /\ pendingTrial = FALSE
    /\ rotateIn = bucketInterval
    /\ resetIn = 0
    /\ openFor = 0
    /\ InitService
    /\ todos = <<>>
    /\ req = [r \in Concurrent |->
                 [IdleRequest EXCEPT
                     !.callsLeft = IF r = 1 THEN MaxPairCalls ELSE 1]]

StartDbPair(r) ==
    \E f \in {0, MaxFailures} :
        Begin(r, "db", defaultMaxRetries, defaultBaseDelay, f)

NextBreakerPair ==
    \/ \E r \in Concurrent : StartDbPair(r)
    \/ \E r \in Concurrent : DbSettle(r)
    \/ \E r \in Concurrent : DbTimeout(r)
    \/ \E r \in Concurrent : Wake(r)
    \/ HalfOpen
    \/ Rotate
    \/ Advance

SpecBreakerPair == InitBreakerPair /\ [][NextBreakerPair]_vars

(* the resolvers over the service, the tables and the event bus, called   *)
(* one after the other; each persistence call is taken by how it settles   *)
NextApi ==
    \/ \E input \in CreateInputs : createTodo(1, input)
    \/ \E id \in TodoIds, input \in UpdateInputs : updateTodo(1, id, input)
    \/ \E id \in TodoIds : deleteTodo(1, id)
    \/ \E id \in TodoIds : completeTodo(1, id)
    \/ \E id \in TodoIds : addTag(1, id)
    \/ FindSettled(1)
    \/ WriteSettled(1)
    \/ HandlerSettled(1)
    \/ \E t \in EventTypes : subscribe(t)

SpecApi == InitApi /\ [][NextApi]_vars

(* two callers at once, each with the shortest valid input: their calls   *)
(* interleave at the persistence calls; nothing is subscribed              *)
NextPair ==
    \/ \E c \in Callers :
          createTodo(c, Input(3, Absent, "absent", "absent"))
    \/ \E c \in Callers, id \in TodoIds :
          updateTodo(c, id, Input(Absent, Absent, "COMPLETED", "absent"))
    \/ \E c \in Callers, id \in TodoIds : deleteTodo(c, id)
    \/ \E c \in Callers, id \in TodoIds : completeTodo(c, id)
    \/ \E c \in Callers, id \in TodoIds : addTag(c, id)
    \/ \E c \in Callers : FindSettled(c)
    \/ \E c \in Callers : WriteSettled(c)

SpecPair == InitApi /\ [][NextPair]_vars

(* the event bus under one caller that creates and deletes: up to          *)
(* MaxSubscribers handlers, subscribed before, during or after a publish   *)
NextBus ==
    \/ \E t \in EventTypes : subscribeWithin(t, MaxSubscribers)
    \/ createTodo(1, Input(3, Absent, "absent", "absent"))
    \/ \E id \in TodoIds : deleteTodo(1, id)
    \/ FindSettled(1)
    \/ WriteSettled(1)
    \/ HandlerSettled(1)

SpecBus == InitApi /\ [][NextBus]_vars

(* ------------------------- claims: withRetry -------------------------- *)
PlainDone(r) == req[r].pc = "done" /\ req[r].kind = "plain"

(* C1: with maxAttempts >= 1 and an operation whose first f invocations    *)
(* fail with a retryable error and whose later ones succeed, a completed   *)
(* withRetry has invoked the operation exactly min(f+1, maxAttempts) times *)
C1_AttemptCount ==
    \A r \in Requests :
        (PlainDone(r) /\ req[r].maxRetries >= 1 /\ req[r].onlyRetryable)
            => req[r].fnCalls = Min(req[r].failing + 1, req[r].maxRetries)

(* success on the second invocation, below the limit of three             *)
C1_Witness ==
    \E r \in Requests :
        /\ PlainDone(r) /\ req[r].onlyRetryable
        /\ req[r].maxRetries = 3
        /\ req[r].failing = 1
        /\ req[r].fnCalls = 2
        /\ req[r].outcome = "returned"

(* C2: an invocation failing with a non-retryable error ends the call at   *)
(* once: that error is thrown, the operation is not invoked again and no   *)
(* backoff follows it (so a first such failure means exactly one attempt)  *)
C2_NonRetryablePropagates ==
    \A r \in Requests :
        (req[r].raised.code \notin (RetryableCodes \cup {"none"}))
            => /\ req[r].pc = "done"
               /\ req[r].outcome = "thrown"
               /\ req[r].error = req[r].raised
               /\ req[r].fnCalls = req[r].raised.at
               /\ req[r].sleeps = req[r].raised.at - 1

C2_Witness ==
    \E r \in Requests :
        /\ PlainDone(r)
        /\ req[r].raised = [code |-> "EOTHER", at |-> 1]
        /\ req[r].maxRetries = 3
        /\ req[r].failing >= 2

(* C3: withRetry with maxRetries = 0 still invokes the operation exactly   *)
(* once, returns its result on success and throws the operation's own      *)
(* failure, without delay, otherwise                                       *)
C3_ZeroRetriesAttemptsOnce ==
    \A r \in Requests :
        (PlainDone(r) /\ req[r].maxRetries = 0)
            => /\ req[r].fnCalls = 1
               /\ req[r].sleeps = 0
               /\ IF req[r].failing = 0
                  THEN req[r].outcome = "returned"
                  ELSE req[r].outcome = "thrown" /\ req[r].error = req[r].raised
                       /\ req[r].error.at = 1

(* C4: when every attempt fails with a retryable error and the limit is    *)
(* reached, the error thrown is the one raised by the last, maxAttempts-th *)
(* invocation                                                              *)
C4_LastErrorPropagates ==
    \A r \in Requests :
        (/\ PlainDone(r) /\ req[r].onlyRetryable
         /\ req[r].maxRetries >= 1 /\ req[r].failing >= req[r].maxRetries)
            => /\ req[r].outcome = "thrown"
               /\ req[r].error = req[r].raised
               /\ req[r].error.at = req[r].maxRetries
               /\ req[r].error.code \in RetryableCodes

C4_Witness ==
    \E r \in Requests :
        /\ PlainDone(r) /\ req[r].onlyRetryable
        /\ req[r].maxRetries = 3 /\ req[r].failing = 5
        /\ req[r].error = [code |-> "ECONNREFUSED", at |-> 3]

(* C5: the k-th failed attempt (k < maxAttempts) is followed by a backoff  *)
(* of a length in [baseDelay*2^(k-1), baseDelay*2^(k-1) + 1000), never     *)
(* negative; the timer runs for exactly that long; the final attempt is    *)
(* followed by none                                                        *)
C5_BackoffRange ==
    \A r \in Requests :
        /\ req[r].sleeps <= IF req[r].maxRetries >= 1
                            THEN req[r].maxRetries - 1 ELSE 0
        /\ req[r].pc = "sleep" => req[r].sleeps = req[r].fnCalls
        /\ req[r].sleeps >= 1 =>
             /\ req[r].lastDelay >= 0
             /\ req[r].lastDelay >= req[r].baseDelay * Pow2(req[r].sleeps - 1)
             /\ req[r].lastDelay < req[r].baseDelay * Pow2(req[r].sleeps - 1) + 1000
             /\ IF req[r].pc = "sleep"
                THEN req[r].slept + req[r].timer = req[r].lastDelay
                ELSE req[r].slept = req[r].lastDelay

(* the backoff after the second failure has been taken in full             *)
C5_Witness ==
    \E r \in Requests :
        /\ req[r].kind = "plain" /\ req[r].pc = "done"
        /\ req[r].baseDelay = 1000
        /\ req[r].sleeps = 2
        /\ req[r].slept = 2999

(* ---------------------- claims: circuit breaker ----------------------- *)
(* this step called fn, and invoked the underlying operation: in the       *)
(* running withRetry call of r, or as the first attempt of a new one       *)
FnInvoked(r) ==
    \/ /\ req'[r].callsLeft = req[r].callsLeft
       /\ req'[r].fnCalls = req[r].fnCalls + 1
    \/ /\ req'[r].callsLeft = req[r].callsLeft - 1
       /\ req'[r].fnCalls = 1

OpInvoked(r) ==
    \/ /\ req'[r].callsLeft = req[r].callsLeft
       /\ req'[r].opCalls = req[r].opCalls + 1
    \/ /\ req'[r].callsLeft = req[r].callsLeft - 1
       /\ req'[r].opCalls = 1

(* C6: while the breaker is open, a call through dbBreaker.fire fails in   *)
(* the same step with the breaker's rejection and db.query is not invoked  *)
C6_OpenFailsFast ==
    [][phase = "open" =>
         \A r \in Requests :
            /\ ~OpInvoked(r)
            /\ (FnInvoked(r) /\ req'[r].kind = "db") =>
                  /\ req'[r].pc \in {"sleep", "done"}
                  /\ req'[r].raised =
                        [code |-> "EOPENBREAKER", at |-> req'[r].fnCalls]]_vars

(* a second attempt was rejected by the open breaker                       *)
C6_Witness ==
    \E r \in Requests :
        /\ phase = "open"
        /\ req[r].raised = [code |-> "EOPENBREAKER", at |-> 2]
        /\ req[r].opCalls = 1

C7_AtLeast50(w) ==
    WindowTotal(w) > 0 /\ WindowFailures(w) * 100 >= 50 * WindowTotal(w)

C7_OutcomeRecorded == window' # window /\ rotateIn' = rotateIn

(* C7: closed -> open happens only on a recorded outcome that leaves the   *)
(* window's failure percentage at 50 or more, and every recorded outcome   *)
(* that brings the percentage to 50 or more while closed opens the breaker *)
C7_OpensAtThreshold ==
    [][phase = "closed" =>
         /\ phase' = "open" => (C7_OutcomeRecorded /\ C7_AtLeast50(window'))
         /\ (C7_OutcomeRecorded /\ ~C7_AtLeast50(window) /\ C7_AtLeast50(window'))
                => phase' = "open"]_vars

(* opened by a failure that made it one failure in two outcomes            *)
C7_Witness ==
    /\ phase = "open"
    /\ openFor = 0
    /\ WindowFailures(window) = 1
    /\ WindowTotal(window) = 2

(* C8: the open phase is left only for half_open, only once 30000 ms have  *)
(* passed since the breaker opened, never straight to closed; and once     *)
(* that time has passed the breaker does become half_open                  *)
C8_OpenToHalfOpen ==
    /\ [][phase = "open" =>
            /\ phase' \in {"open", "halfOpen"}
            /\ phase' = "halfOpen" => openFor >= 30000]_vars
    /\ (phase = "open" /\ openFor >= 30000) ~> (phase = "halfOpen")

C8_Witness ==
    /\ phase = "halfOpen"
    /\ pendingTrial
    /\ openFor = 30000

C9_TrialSettled(r) ==
    req[r].pc = "inflight" /\ req[r].trial /\ req'[r].pc # "inflight"

(* C9: in half_open the next call goes through as the trial; its success   *)
(* closes the breaker and empties the window, its failure opens the        *)
(* breaker with the full reset timeout ahead; nothing else leaves half_open*)
C9_HalfOpenTrial ==
    [][phase = "halfOpen" =>
         /\ \A r \in Requests :
               (pendingTrial /\ FnInvoked(r) /\ req'[r].kind = "db") =>
                   /\ req'[r].pc = "inflight"
                   /\ req'[r].trial
                   /\ OpInvoked(r)
                   /\ phase' = "halfOpen"
         /\ \A r \in Requests :
               C9_TrialSettled(r) =>
                   IF req'[r].outcome = "returned"
                   THEN phase' = "closed" /\ window' = EmptyWindow
                   ELSE phase' = "open" /\ resetIn' = 30000 /\ openFor' = 0
         /\ phase' # "halfOpen" => \E r \in Requests : C9_TrialSettled(r)]_vars

(* a trial call succeeded and closed the breaker                           *)
C9_Witness ==
    \E r \in Requests :
        /\ req[r].phaseAtStart = "halfOpen"
        /\ req[r].pc = "done"
        /\ req[r].outcome = "returned"
        /\ req[r].trial
        /\ phase = "closed"
        /\ WindowTotal(window) = 0

(* a persistence call begun on a closed breaker with an empty window whose *)
(* underlying operation times out on each of 5 consecutive invocations     *)
C10_Scenario(r) ==
    /\ req[r].pc # "idle"
    /\ req[r].kind = "db"
    /\ req[r].maxRetries = 3
    /\ req[r].phaseAtStart = "closed"
    /\ req[r].emptyAtStart
    /\ req[r].failing = 5
    /\ req[r].timedOut = req[r].recorded

(* C10 as stated: the call ends in a thrown failure with 3 failures        *)
(* recorded in the window, the operation having been invoked 3 times       *)
C10_ThreeFailuresRecorded ==
    \A r \in Requests :
        (C10_Scenario(r) /\ req[r].pc = "done") =>
            /\ req[r].outcome = "thrown"
            /\ req[r].recorded = 3
            /\ req[r].opCalls = 3

(* C10 amended: the call ends in a thrown failure with exactly 1 failure   *)
(* recorded, the operation having been invoked once (and never more than   *)
(* once along the way): the first timeout opens the breaker and the next   *)
(* attempt is rejected                                                     *)
C10_OneFailureRecorded ==
    \A r \in Requests :
        C10_Scenario(r) =>
            /\ req[r].opCalls <= 1
            /\ req[r].recorded <= 1
            /\ req[r].pc = "done" =>
                  /\ req[r].outcome = "thrown"
                  /\ req[r].recorded = 1
                  /\ req[r].opCalls = 1

C10_Witness ==
    \E r \in Requests :
        /\ C10_Scenario(r)
        /\ req[r].pc = "done"
        /\ req[r].timedOut = 1
        /\ req[r].error.code = "EOPENBREAKER"

(* C11 as stated: a persistence call begun while the breaker is open, all  *)
(* of whose attempts were rejected without a dependency call, has gone     *)
(* through the whole retry sequence: maxAttempts attempts with a backoff   *)
(* between them                                                             *)
C11_RetriesWhileOpen ==
    \A r \in Requests :
        (/\ req[r].pc = "done" /\ req[r].kind = "db"
         /\ req[r].phaseAtStart = "open" /\ req[r].opCalls = 0)
            => /\ req[r].fnCalls = req[r].maxRetries
               /\ req[r].sleeps = req[r].maxRetries - 1

(* C11 amended: a persistence call begun while the breaker is open is      *)
(* attempted once; the attempt is rejected without a dependency call and   *)
(* the rejection, which is not on the retry allow-list, is thrown to the   *)
(* caller at once, with no re-attempt and no backoff                       *)
C11_OpenRejectsOnce ==
    \A r \in Requests :
        (/\ req[r].pc # "idle" /\ req[r].kind = "db"
         /\ req[r].phaseAtStart = "open")
            => /\ req[r].pc = "done"
               /\ req[r].outcome = "thrown"
               /\ req[r].error = [code |-> "EOPENBREAKER", at |-> 1]
               /\ req[r].fnCalls = 1
               /\ req[r].opCalls = 0
               /\ req[r].sleeps = 0
               /\ req[r].recorded = 0

(* a call was begun 1000 ms into the open phase and rejected               *)
C11_Witness ==
    \E r \in Requests :
        /\ req[r].pc = "done" /\ req[r].kind = "db"
        /\ req[r].phaseAtStart = "open"
        /\ req[r].error.code = "EOPENBREAKER"
        /\ phase = "open"
        /\ openFor = 1000

(* ------------------------- claims: api layer -------------------------- *)
HasField(fields, name) == \E i \in 1..Len(fields) : fields[i].field = name

(* C12: a createTodo call whose title has fewer than 3 characters ends, in *)
(* the step that makes it, with a returned ValidationError of code         *)
(* VALIDATION_ERROR whose fields hold an entry for 'title'; no persistence *)
(* call was issued and nothing was published                               *)
C12_ShortTitleRejected ==
    \A c \in Callers :
        (/\ api[c].name = "createTodo"
         /\ api[c].input.title # Absent /\ api[c].input.title < 3)
            => /\ api[c].pc = "done"
               /\ api[c].result.channel = "returned"
               /\ api[c].result.typename = "ValidationError"
               /\ api[c].result.body["code"] = "VALIDATION_ERROR"
               /\ HasField(api[c].result.body["fields"], "title")
               /\ api[c].reads = 0 /\ api[c].writes = 0
               /\ api[c].stored = <<>>
               /\ api[c].notified = <<>>

(* a two-character title with nothing else wrong: one entry, for title     *)
C12_Witness ==
    \E c \in Callers :
        /\ api[c].pc = "done" /\ api[c].name = "createTodo"
        /\ api[c].input.title = 2
        /\ api[c].result.typename = "ValidationError"
        /\ Len(api[c].result.body["fields"]) = 1

(* the step in which findById of an update, delete or complete call comes  *)
(* back without a row                                                      *)
C13_FoundNothing(c) ==
    /\ api[c].pc = "find" /\ api'[c].pc # "find"
    /\ api[c].name \in {"updateTodo", "deleteTodo", "completeTodo"}
    /\ api[c].id \notin DOMAIN todos
    /\ api'[c].dbError = NoDbError

(* C13: updateTodo, deleteTodo and completeTodo for an id without a row    *)
(* end with a returned (not thrown) TodoNotFoundError of code              *)
(* TODO_NOT_FOUND whose todoId is the requested id; no write is issued,    *)
(* the tables stay as they are and nothing is published                    *)
C13_NotFoundReturned ==
    [][\A c \in Callers :
          C13_FoundNothing(c) =>
              /\ api'[c].pc = "done"
              /\ api'[c].result.channel = "returned"
              /\ api'[c].result.typename = "TodoNotFoundError"
              /\ api'[c].result.body["code"] = "TODO_NOT_FOUND"
              /\ api'[c].result.body["todoId"] = api[c].id
              /\ api'[c].writes = 0
              /\ api'[c].notified = <<>>
              /\ todos' = todos /\ todoTags' = todoTags]_vars

(* deleteTodo of id 1 on a table that holds only the earlier row           *)
C13_Witness ==
    \E c \in Callers :
        /\ api[c].pc = "done" /\ api[c].name = "deleteTodo"
        /\ api[c].id = 1
        /\ api[c].result.typename = "TodoNotFoundError"
        /\ DOMAIN todos = {0}

(* a completeTodo call that found its row pending and whose UPDATE went    *)
(* through                                                                  *)
C14_Completing(c) ==
    /\ api[c].name = "completeTodo"
    /\ api[c].found # <<>> /\ api[c].found[1].status = "PENDING"
    /\ api[c].stored # <<>>

(* C14: completeTodo on an existing pending entity whose persistence calls *)
(* succeed stores the row with status COMPLETED and completedAt equal to   *)
(* the updatedAt stamped by the call, publishes the completed event once   *)
(* and no other event, and ends by returning that entity                   *)
C14_CompletePending ==
    \A c \in Callers :
        C14_Completing(c) =>
            /\ api[c].stored[1].status = "COMPLETED"
            /\ api[c].stored[1].updatedAt = api[c].now
            /\ api[c].stored[1].completedAt = api[c].stored[1].updatedAt
            /\ api[c].notified = <<"todos.todo.completed.v1">>
            /\ api[c].pc = "done" =>
                  /\ api[c].result.channel = "returned"
                  /\ api[c].result.typename = "Todo"
                  /\ api[c].result.body = mapRow(api[c].stored[1])

(* C15: a call in which a persistence call failed ends thrown, and what is *)
(* thrown carries a coarse code and the call's correlationId; a validation *)
(* or not-found outcome is returned, never thrown                          *)
C15_TechnicalFailureThrown ==
    \A c \in Callers :
        api[c].pc = "done" =>
            /\ api[c].dbError # NoDbError =>
                  /\ api[c].result.channel = "thrown"
                  /\ "extensions.code" \in DOMAIN api[c].result.body
                  /\ "extensions.correlationId" \in DOMAIN api[c].result.body
                  /\ api[c].result.body["extensions.correlationId"]
                        = api[c].correlationId
            /\ api[c].result.typename \in {"ValidationError", "TodoNotFoundError"}
                  => api[c].result.channel = "returned"

(* two calls of the same resolver with the same arguments, each ended by a *)
(* persistence failure                                                     *)
C16_SameRequestFailed(c, d) ==
    /\ api[c].pc = "done" /\ api[d].pc = "done"
    /\ api[c].dbError # NoDbError /\ api[d].dbError # NoDbError
    /\ api[c].name = api[d].name
    /\ api[c].id = api[d].id
    /\ api[c].input = api[d].input

(* C16: the responses to two such calls are the same whatever the texts of *)
(* the two persistence failures (the correlation id apart, which the       *)
(* response body does not hold)                                            *)
C16_NoInternalDetail ==
    \A c, d \in Callers :
        C16_SameRequestFailed(c, d) => api[c].result = api[d].result

(* C17: a call during which a subscribed handler threw or rejected still   *)
(* ends by returning its success outcome                                   *)
C17_HandlerFailureSwallowed ==
    \A c \in Callers :
        (api[c].pc = "done" /\ api[c].handlerErrors > 0)
            => /\ api[c].result.channel = "returned"
               /\ api[c].result.typename \in {"CreateTodoSuccess", "Todo"}

(* C18: no mutation is ever suspended on the event sink: a handler that    *)
(* has been called and has not settled never stands between a mutation     *)
(* whose persistence call succeeded and its completion                     *)
C18_NeverWaitsOnHandler ==
    \A c \in Callers : api[c].pc # "publish"

(* a createTodo call with a title of 3 to 200 characters and otherwise     *)
(* valid input whose INSERT went through                                   *)
C19_Created(c) ==
    /\ api[c].name = "createTodo"
    /\ api[c].input.title >= 3 /\ api[c].input.title <= 200
    /\ api[c].stored # <<>>

(* C19: such a call stores a row with status PENDING and createdAt equal   *)
(* to updatedAt, and ends by returning a CreateTodoSuccess that wraps that *)
(* row as the table holds it                                               *)
C19_CreateSuccess ==
    \A c \in Callers :
        C19_Created(c) =>
            /\ api[c].stored[1].status = "PENDING"
            /\ api[c].stored[1].createdAt = api[c].stored[1].updatedAt
            /\ api[c].pc = "done" =>
                  /\ api[c].result.channel = "returned"
                  /\ api[c].result.typename = "CreateTodoSuccess"
                  /\ api[c].result.body["todo"] = mapRow(api[c].stored[1])
                  /\ api[c].id \in DOMAIN todos
                  /\ todos[api[c].id] = api[c].stored[1]

(* ------------------------- claims: termination ------------------------- *)
(* at most maxRetries invocations of fn in one withRetry call              *)
C20_InvocationsBounded ==
    \A r \in Requests : req[r].fnCalls <= req[r].maxRetries

(* a step in which withRetry is called anew: the counters the call ends    *)
(* the step with are those of a first attempt, whatever the call before it *)
(* left behind                                                             *)
C20_StartsAfresh ==
    \A r \in Requests :
        req'[r].callsLeft = req[r].callsLeft - 1 =>
            /\ req'[r].attempt = 0
            /\ req'[r].fnCalls = (IF req'[r].maxRetries > 0 THEN 1 ELSE 0)
            /\ req'[r].sleeps = (IF req'[r].pc = "sleep" THEN 1 ELSE 0)
            /\ req'[r].pc = "sleep" =>
                  /\ req'[r].lastDelay >= delay(req'[r].baseDelay, 0)
                  /\ req'[r].lastDelay < delay(req'[r].baseDelay, 0) + jitterRange
            /\ req'[r].pc = "done" /\ req'[r].outcome = "thrown" =>
                  req'[r].error.at = req'[r].fnCalls

(* C20 as stated: for every maxRetries >= 0 a withRetry call completes,    *)
(* after at most maxRetries invocations and at most maxRetries - 1         *)
(* backoffs, and the next call starts again at attempt 0                   *)
C20_BoundedAsStated ==
    /\ [](C20_InvocationsBounded
          /\ \A r \in Requests :
                 req[r].pc # "idle" => req[r].sleeps <= req[r].maxRetries - 1)
    /\ \A r \in Requests : (req[r].pc = "sleep") ~> (req[r].pc = "done")
    /\ [][C20_StartsAfresh]_vars

(* C20: for every maxRetries >= 0 a withRetry call completes, after at     *)
(* most maxRetries invocations and at most maxRetries - 1 backoffs (none   *)
(* when maxRetries is 0), and the next call starts again at attempt 0      *)
C20_Bounded ==
    /\ [](C20_InvocationsBounded
          /\ \A r \in Requests :
                 req[r].pc # "idle" =>
                     req[r].sleeps <= (IF req[r].maxRetries >= 1
                                       THEN req[r].maxRetries - 1 ELSE 0))
    /\ \A r \in Requests : (req[r].pc = "sleep") ~> (req[r].pc = "done")
    /\ [][C20_StartsAfresh]_vars

(* a second or later call in its first backoff                             *)
C20_Witness ==
    \E r \in Requests :
        /\ req[r].callsLeft <= MaxCalls - 2
        /\ req[r].pc = "sleep"
        /\ req[r].attempt = 0 /\ req[r].sleeps = 1 /\ req[r].fnCalls = 1

(* ----------------------- claims: notifications ------------------------- *)
(* the event a mutating operation publishes                                *)
C21_EventOf(name) ==
    CASE name = "createTodo" -> <<"todos.todo.created.v1">>
      [] name = "updateTodo" -> <<"todos.todo.updated.v1">>
      [] name = "completeTodo" -> <<"todos.todo.completed.v1">>
      [] name = "deleteTodo" -> <<"todos.todo.deleted.v1">>
      [] OTHER -> <<>>

(* C21: a call has published only once its mutation's persistence call was *)
(* issued and did not fail; a call that returned its success outcome has   *)
(* published its operation's event exactly once; a call that ended with a  *)
(* ValidationError, a TodoNotFoundError or a thrown error has published    *)
(* nothing                                                                 *)
C21_PublishedAfterWrite ==
    \A c \in Callers :
        /\ api[c].notified # <<>> =>
              /\ api[c].writes = 1
              /\ api[c].dbError = NoDbError
              /\ api[c].notified = C21_EventOf(api[c].name)
        /\ (api[c].pc = "done"
              /\ api[c].result.typename \in {"CreateTodoSuccess", "Todo"})
              => api[c].notified = C21_EventOf(api[c].name)
        /\ (api[c].pc = "done"
              /\ \/ api[c].result.typename \in {"ValidationError",
                                                "TodoNotFoundError"}
                 \/ api[c].result.channel = "thrown")
              => api[c].notified = <<>>

(* ------------------------- claims: validation -------------------------- *)
(* the fields of an updateTodo input that break a rule of the schema: a    *)
(* title outside 3..200 characters, a description over 1000, a status that *)
(* is none of the four, a dueDate that is not YYYY-MM-DD                   *)
C22_InvalidFields(input) ==
    (IF input.title # Absent /\ (input.title < 3 \/ input.title > 200)
     THEN {"title"} ELSE {})
    \cup (IF input.description # Absent /\ input.description > 1000
          THEN {"description"} ELSE {})
    \cup (IF input.status # "absent" /\ input.status \notin TodoStatuses
          THEN {"status"} ELSE {})
    \cup (IF input.dueDate \notin {"absent", DueDateOk}
          THEN {"dueDate"} ELSE {})

(* C22: an updateTodo call with an invalid input ends, in the step that    *)
(* makes it, with a returned ValidationError that has exactly one entry    *)
(* for each invalid field, and has issued no persistence call, neither     *)
(* findById's nor the UPDATE, whether or not a row of that id exists       *)
C22_ValidationFirst ==
    \A c \in Callers :
        (/\ api[c].name = "updateTodo"
         /\ C22_InvalidFields(api[c].input) # {})
            => /\ api[c].pc = "done"
               /\ api[c].result.channel = "returned"
               /\ api[c].result.typename = "ValidationError"
               /\ Len(api[c].result.body["fields"])
                     = Cardinality(C22_InvalidFields(api[c].input))
               /\ \A f \in C22_InvalidFields(api[c].input) :
                     HasField(api[c].result.body["fields"], f)
               /\ api[c].reads = 0 /\ api[c].writes = 0
               /\ api[c].found = <<>> /\ api[c].stored = <<>>

(* every field invalid, for the id of a row that exists                    *)
C22_Witness ==
    \E c \in Callers :
        /\ api[c].pc = "done" /\ api[c].name = "updateTodo"
        /\ api[c].id \in DOMAIN todos
        /\ Cardinality(C22_InvalidFields(api[c].input)) = 4
        /\ api[c].result.typename = "ValidationError"
        /\ Len(api[c].result.body["fields"]) = 4

(* ------------------------- claims: concurrency ------------------------- *)
(* C24: with no persistence call failing, an updateTodo or completeTodo    *)
(* call ends with the returned entity or with a returned                   *)
(* TodoNotFoundError, also when a deleteTodo of the same id runs between   *)
(* its findById and its UPDATE; it never ends with a thrown error          *)
C24_UpdateOrNotFound ==
    \A c \in Callers :
        (/\ api[c].name \in {"updateTodo", "completeTodo"}
         /\ api[c].pc = "done"
         /\ \A d \in Callers : api[d].dbError = NoDbError)
            => /\ api[c].result.channel = "returned"
               /\ api[c].result.typename \in {"Todo", "TodoNotFoundError"}

(* two deleteTodo calls for the same id                                    *)
C25_BothDelete(c, d) ==
    /\ c # d
    /\ api[c].name = "deleteTodo" /\ api[d].name = "deleteTodo"
    /\ api[c].id = api[d].id

(* C25: of two deleteTodo calls for the same id at most one publishes      *)
(* todos.todo.deleted.v1 and at most one ends by returning the deleted     *)
(* entity                                                                  *)
C25_OneDeleteWins ==
    \A c, d \in Callers :
        C25_BothDelete(c, d) =>
            /\ ~(/\ api[c].notified = <<"todos.todo.deleted.v1">>
                 /\ api[d].notified = <<"todos.todo.deleted.v1">>)
            /\ ~(/\ api[c].pc = "done" /\ api[c].result.typename = "Todo"
                 /\ api[d].pc = "done" /\ api[d].result.typename = "Todo")

(* ------------------------ claims: stored entities ---------------------- *)
(* C27: every row of the table has status COMPLETED exactly when its       *)
(* completedAt is set, and a completedAt that is set is not later than     *)
(* the row's updatedAt                                                     *)
C27_CompletedHasTime ==
    \A i \in DOMAIN todos :
        /\ todos[i].status = "COMPLETED" <=> todos[i].completedAt # Absent
        /\ todos[i].completedAt # Absent
              => todos[i].completedAt <= todos[i].updatedAt

(* --------------------------- claims: event bus ------------------------- *)
IsPrefix(p, q) == Len(p) <= Len(q) /\ SubSeq(q, 1, Len(p)) = p

(* C26: a publish call calls no handler twice and none that is not         *)
(* subscribed to the event's type; while it waits, the handlers called so  *)
(* far are the first ones of that type in subscription order; and once the *)
(* call is over, every handler that was subscribed to the type when        *)
(* publish was called has been called, in subscription order, whatever the *)
(* handlers before it did                                                  *)
C26_EveryHandlerOnce ==
    \A c \in Callers :
        api[c].notified # <<>> =>
            /\ \A i, j \in 1..Len(api[c].invoked) :
                  api[c].invoked[i] = api[c].invoked[j] => i = j
            /\ IsPrefix(api[c].invoked, handlers[api[c].eventType])
            /\ api[c].pc = "publish" => Len(api[c].invoked) = api[c].hidx
            /\ api[c].pc = "done" => IsPrefix(api[c].atCall, api[c].invoked)

(* ---------------------- claims: shared breaker ------------------------- *)
(* the requests whose db.query settles or times out in a step              *)
C23_Settling == {r \in Concurrent : req[r].pc = "inflight" /\ req'[r].pc # "inflight"}

C23_Succeeds(r) == req'[r].pc = "done" /\ req'[r].outcome = "returned"

(* C23: with two requests going through the one breaker in any order, a    *)
(* step settles at most one invocation of db.query; that step puts exactly *)
(* that outcome into the window (which a successful trial then clears) and *)
(* no other step puts anything into it; while closed the step opens the    *)
(* breaker exactly when the window holding that outcome is at 50% or more; *)
(* and every request has as many outcomes recorded as invocations settled  *)
C23_RecordedOnce ==
    /\ [][/\ Cardinality(C23_Settling) <= 1
          /\ C23_Settling = {} =>
                /\ window' \in {window, RotateWindow(window)}
                /\ phase' = phase \/ (phase = "open" /\ phase' = "halfOpen")
          /\ \A r \in C23_Settling :
                /\ \/ window' = RecordOutcome(window, C23_Succeeds(r))
                   \/ /\ req[r].trial /\ C23_Succeeds(r)
                      /\ window' = EmptyWindow
                /\ phase = "closed" =>
                      (phase' = "open" <=> C7_AtLeast50(window'))
                /\ req'[r].recorded
                      = req[r].recorded + (IF C23_Succeeds(r) THEN 0 ELSE 1)]_vars
    /\ [](\A r \in Concurrent :
             req[r].kind = "db" =>
                 req[r].recorded
                    = req[r].opCalls
                      - (IF req[r].pc = "inflight" \/ req[r].outcome = "returned"
                         THEN 1 ELSE 0))

(* two requests that both began on the closed breaker with an empty        *)
(* window and so were in flight together: one failed, the other succeeded, *)
(* both outcomes are in the window and the breaker is open                 *)
C23_Witness ==
    \E r, q \in Concurrent :
        /\ r # q
        /\ req[r].phaseAtStart = "closed" /\ req[r].emptyAtStart
        /\ req[q].phaseAtStart = "closed" /\ req[q].emptyAtStart
        /\ req[r].recorded = 1
        /\ req[q].pc = "done" /\ req[q].outcome = "returned"
        /\ phase = "open"
        /\ WindowFailures(window) = 1 /\ WindowTotal(window) = 2

====
